---- MODULE Spec2Model ----
(***************************************************************************)
(* Model of state/chart_dependency.go: the chart dependency scan, the      *)
(* lock-file protocol of chartDependencyManager (Update / Resolve) and     *)
(* the merge of locked versions back into the HelmState.                   *)
(*                                                                         *)
(* Strings the code takes apart (chart references, file paths) are         *)
(* sequences of atoms; "/" is the separator atom.  Strings the code only   *)
(* compares (versions, URLs) are TLA+ strings.                             *)
(***************************************************************************)
EXTENDS Naturals, Sequences, FiniteSets, TLC

VARIABLES
    st,             \* the caller's *HelmState: FilePath, Repositories, Releases (a slice: address of its backing array)
    heap,           \* backing arrays of release slices, by address
    disk,           \* lock files in the working directory, by file name
    ws,             \* the temporary directory d and the three files Update keeps in it
    op,             \* entry point running: "merge" or "update"
    pc,             \* position inside the running entry point
    i,              \* loop index of the scan loop / the merge loop
    unresolved,     \* UnresolvedDependencies.deps
    filename,       \* the lock identity computed by the scan
    lockFileContent,        \* Update's local: bytes of the prior lock (Nil when absent)
    updatedLockFileContent, \* Update's local: bytes of the output lock
    resolved,       \* *ResolvedDependencies returned by Resolve (nil pointer or its deps map)
    lockfileExists, \* resolveDependencies' local: the second result of Resolve
    updated,        \* resolveDependencies' local copy `updated := *st`
    ret,            \* what the entry point returned: document pointer and error
    pre,            \* history: release values and disk at the moment of the call
    events,         \* history: I/O performed by the running call, in order
    passes          \* two concurrent update passes on two state files (SpecPair only)

vars == <<st, heap, disk, ws, op, pc, i, unresolved, filename, lockFileContent,
          updatedLockFileContent, resolved, lockfileExists, updated, ret, pre, events,
          passes>>

-----------------------------------------------------------------------------
(* Bounds *)

MaxReleases == 3

-----------------------------------------------------------------------------
(* Values *)

Nil == "nil"            \* Go's nil error
NotExist == "ENOENT"    \* the error os.IsNotExist recognises

\* file contents: a yaml list of dependencies, or bytes yaml.Unmarshal rejects;
\* NoFile stands for a file that does not exist, NilBytes for Go's nil []byte
Bytes(kind, deps) == [kind |-> kind, deps |-> deps]
Yaml(deps) == Bytes("yaml", deps)
Garbage == Bytes("garbage", << >>)
NoFile == Bytes("absent", << >>)
NilBytes == Bytes("nil", << >>)

\* a *ResolvedDependencies: the nil pointer, or a pointer to a value with the given deps map
NilResolved == [isNil |-> TRUE, deps |-> << >>]
ResolvedPtr(deps) == [isNil |-> FALSE, deps |-> deps]

SeqsUpTo(S, n) == UNION {[1..k -> S] : k \in 0..n}

\* helm repositories of the state file: alias m -> u1, alias k -> u2; alias o is not declared
Repositories ==
    << [Name |-> <<"m">>, URL |-> "u1"], [Name |-> <<"k">>, URL |-> "u2"] >>

Release(chart, version) == [Chart |-> chart, Version |-> version]

\* releases a state file of the model may list
ReleasePool ==
    { Release(<<"m", "/", "e">>, ""),
      Release(<<"m", "/", "e">>, "1"),
      Release(<<"m", "/", "n">>, "1"),
      Release(<<"k", "/", "e">>, ""),
      Release(<<"o", "/", "e">>, "1"),
      Release(<<".", "/", "e">>, ""),
      Release(<<"m", "/", "e", "/", "n">>, ""),
      Release(<<"m", "/">>, "") }

\* paths of state files
FilePaths ==
    { <<"d", "/", "helmfile", ".yaml">>,
      <<"helmfile", ".yml", ".gotmpl">> }

Locked(name, version) == [ChartName |-> name, Repository |-> "u1", Version |-> version]

\* contents of a lock file: a yaml document listing resolved dependencies, or garbage
LockContents ==
    { Garbage,
      Yaml(<< Locked(<<"e">>, "3") >>),
      Yaml(<< Locked(<<"e">>, "3"), Locked(<<"n">>, "4") >>),
      Yaml(<< Locked(<<"e">>, "3"), Locked(<<"e">>, "4") >>) }

-----------------------------------------------------------------------------
(* Strings *)

\* strings.Split(s, "/")
RECURSIVE Split(_)
Split(s) ==
    IF \A j \in 1..Len(s) : s[j] /= "/"
    THEN << s >>
    ELSE LET j == CHOOSE j \in 1..Len(s) : s[j] = "/" /\ \A l \in 1..(j - 1) : s[l] /= "/"
         IN  << SubSeq(s, 1, j - 1) >> \o Split(SubSeq(s, j + 1, Len(s)))

\* strings.TrimSuffix(s, suffix) for a one-atom suffix
TrimSuffix(s, suffix) ==
    IF Len(s) > 0 /\ s[Len(s)] = suffix THEN SubSeq(s, 1, Len(s) - 1) ELSE s

\* filepath.Base(path) of a non-empty path without trailing separator
Base(path) == LET parts == Split(path) IN parts[Len(parts)]

\* isLocalChart: a filesystem-style path (starts with "." or "/")
isLocalChart(chart) == Len(chart) > 0 /\ chart[1] \in {".", "/"}

\* resolveRemoteChart: (repo, chart, ok), or a panic
resolveRemoteChart(repoAndChart) ==
    LET parts == Split(repoAndChart) IN
    IF isLocalChart(repoAndChart)
    THEN [repo |-> << >>, chart |-> << >>, ok |-> FALSE, panic |-> FALSE]
    ELSE IF Len(parts) /= 2
    THEN [repo |-> << >>, chart |-> << >>, ok |-> FALSE, panic |-> TRUE]
    ELSE [repo |-> parts[1], chart |-> parts[2], ok |-> TRUE, panic |-> FALSE]

-----------------------------------------------------------------------------
(* Dependency sets *)

EmptyMap == << >>

Put(m, k, v) == [x \in DOMAIN m \cup {k} |-> IF x = k THEN v ELSE m[x]]

\* a repository map that gives every alias the URL of the last declared repository
repoToURL_LastURL(repos) ==
    [n \in {repos[j].Name : j \in 1..Len(repos)} |-> repos[Len(repos)].URL]

\* the loop `for _, r := range st.Repositories { repoToURL[r.Name] = r.URL }`: the last entry of a name wins
repoToURL(repos) ==
    [n \in {repos[j].Name : j \in 1..Len(repos)} |->
        LET last == CHOOSE j \in 1..Len(repos) :
                        repos[j].Name = n /\ \A l \in (j + 1)..Len(repos) : repos[l].Name /= n
        IN  repos[last].URL]

\* add that stores the incoming spec before it reports the conflict
add_StoresOnConflict(deps, dep) ==
    IF dep.ChartName \in DOMAIN deps
       /\ (deps[dep.ChartName].Repository /= dep.Repository
           \/ deps[dep.ChartName].VersionConstraint /= dep.VersionConstraint)
    THEN [deps |-> Put(deps, dep.ChartName, dep), err |-> "ConflictError"]
    ELSE [deps |-> Put(deps, dep.ChartName, dep), err |-> Nil]

\* UnresolvedDependencies.add: the new deps map and the error
add(deps, dep) ==
    IF dep.ChartName \in DOMAIN deps
       /\ (deps[dep.ChartName].Repository /= dep.Repository
           \/ deps[dep.ChartName].VersionConstraint /= dep.VersionConstraint)
    THEN [deps |-> deps, err |-> "ConflictError"]
    ELSE [deps |-> Put(deps, dep.ChartName, dep), err |-> Nil]

\* UnresolvedDependencies.Add
Add(deps, chart, url, versionConstraint) ==
    add(deps, [ChartName |-> chart, Repository |-> url, VersionConstraint |-> versionConstraint])

\* the orders in which `range d.deps` may visit the keys of a map
Orders(m) ==
    {o \in [1..Cardinality(DOMAIN m) -> DOMAIN m] : \A a, b \in DOMAIN o : a /= b => o[a] /= o[b]}

\* ToChartRequirements whose loop variable is a reference into the map: the defaulted
\* constraint is stored back
ToChartRequirements_DefaultsInPlace(deps, o) ==
    LET defaulted == [n \in DOMAIN deps |->
                        IF deps[n].VersionConstraint = ""
                        THEN [deps[n] EXCEPT !.VersionConstraint = "*"]
                        ELSE deps[n]]
    IN  [reqs |-> [j \in DOMAIN o |-> defaulted[o[j]]], deps |-> defaulted]

\* UnresolvedDependencies.ToChartRequirements, visiting the map in order o: the
\* requirements and the map after the call (the loop variable `d` is a copy, so
\* `d.VersionConstraint = "*"` does not reach the map)
ToChartRequirements(deps, o) ==
    [reqs |-> [j \in DOMAIN o |->
                  IF deps[o[j]].VersionConstraint = ""
                  THEN [deps[o[j]] EXCEPT !.VersionConstraint = "*"]
                  ELSE deps[o[j]]],
     deps |-> deps]

\* ResolvedDependencies.add that keeps the first entry of a name and reports nothing
addResolved_KeepsFirst(deps, dep) ==
    IF dep.ChartName \in DOMAIN deps
    THEN [deps |-> deps, err |-> Nil]
    ELSE [deps |-> Put(deps, dep.ChartName, dep), err |-> Nil]

\* ResolvedDependencies.add: the new deps map and the error
addResolved(deps, dep) ==
    IF dep.ChartName \in DOMAIN deps
    THEN [deps |-> deps, err |-> "ConflictError"]
    ELSE [deps |-> Put(deps, dep.ChartName, dep), err |-> Nil]

\* Get that answers a missing entry with the zero value of the map instead of an error
Get_MissingIsEmpty(d, chart) ==
    IF d.isNil
    THEN [ver |-> "", err |-> Nil, panic |-> TRUE]
    ELSE IF chart \notin DOMAIN d.deps
    THEN [ver |-> "", err |-> Nil, panic |-> FALSE]
    ELSE [ver |-> d.deps[chart].Version, err |-> Nil, panic |-> FALSE]

\* ResolvedDependencies.Get on the pointer d: version and error, or the
\* nil-pointer panic of `d.deps` when d is nil
Get(d, chart) ==
    IF d.isNil
    THEN [ver |-> "", err |-> Nil, panic |-> TRUE]
    ELSE IF chart \notin DOMAIN d.deps
    THEN [ver |-> "", err |-> "NotFoundError", panic |-> FALSE]
    ELSE [ver |-> d.deps[chart].Version, err |-> Nil, panic |-> FALSE]

-----------------------------------------------------------------------------
(* Lock files *)

\* the suffix stripping at the end of getUnresolvedDependenciess
Filename(path) ==
    TrimSuffix(TrimSuffix(TrimSuffix(Base(path), ".gotmpl"), ".yaml"), ".yml")

\* chartDependencyManager.lockFileName
\* a lock file name that ignores the state file: the name of the chart's own lock
lockFileName_Fixed(name) == <<"requirements", ".lock">>

lockFileName(name) == Append(name, ".lock")

LockFiles == {lockFileName(Filename(p)) : p \in FilePaths}

\* m.readBytes: what a read of a file with the given content (or NoFile) may return:
\* the injected readFile may fail with an I/O error on any file
readBytes(content) ==
    { [bytes |-> NilBytes, err |-> "IOError"] }
    \cup (IF content = NoFile
          THEN { [bytes |-> NilBytes, err |-> NotExist] }
          ELSE { [bytes |-> content, err |-> Nil] })

\* yaml.Unmarshal into ChartLockedRequirements
Unmarshal(bytes) ==
    IF bytes.kind = "yaml"
    THEN [deps |-> bytes.deps, err |-> Nil]
    ELSE [deps |-> << >>, err |-> "MalformedLockError"]

\* the loop of Resolve adding the locked requirements one by one
RECURSIVE loadResolved(_, _)
loadResolved(deps, list) ==
    IF list = << >>
    THEN [deps |-> deps, err |-> Nil]
    ELSE LET a == addResolved(deps, Head(list)) IN
         IF a.err /= Nil
         THEN [deps |-> deps, err |-> "MalformedLockError"]
         ELSE loadResolved(a.deps, Tail(list))

\* chartDependencyManager.Resolve, given what readBytes(lockFileName()) returned
Resolve(rd) ==
    IF rd.err /= Nil
    THEN IF rd.err = NotExist
         THEN [resolved |-> NilResolved, lockExists |-> TRUE, err |-> Nil]
         ELSE [resolved |-> NilResolved, lockExists |-> FALSE, err |-> rd.err]
    ELSE LET lockedReqs == Unmarshal(rd.bytes) IN
         IF lockedReqs.err /= Nil
         THEN [resolved |-> NilResolved, lockExists |-> FALSE, err |-> lockedReqs.err]
         ELSE LET r == loadResolved(EmptyMap, lockedReqs.deps) IN
              IF r.err /= Nil
              THEN [resolved |-> NilResolved, lockExists |-> FALSE, err |-> r.err]
              ELSE [resolved |-> ResolvedPtr(r.deps), lockExists |-> TRUE, err |-> Nil]

-----------------------------------------------------------------------------
(* State *)

\* the slice st.Releases points at the backing array at this address
ReleasesAddr == 1

HelmState(path) == [FilePath |-> path, Repositories |-> Repositories, Releases |-> ReleasesAddr]

NoWs == [exists |-> FALSE, chart |-> NoFile, reqs |-> NoFile, lock |-> NoFile]

NoRet == [doc |-> "none", err |-> Nil]

\* an I/O operation the running call performed, and the error it returned
Ev(what, err) == [what |-> what, err |-> err]

\* no concurrent passes: the single caller of Spec
NoPasses == [pass |-> << >>, owner |-> << >>]

Init ==
    /\ st = HelmState(<<"helmfile", ".yml">>)
    /\ heap = [a \in {ReleasesAddr} |-> << >>]
    /\ disk = [f \in LockFiles |-> NoFile]
    /\ ws = NoWs
    /\ op = "none"
    /\ pc = "idle"
    /\ i = 1
    /\ unresolved = EmptyMap
    /\ filename = << >>
    /\ lockFileContent = NilBytes
    /\ updatedLockFileContent = NilBytes
    /\ resolved = NilResolved
    /\ lockfileExists = FALSE
    /\ updated = HelmState(<<"helmfile", ".yml">>)
    /\ ret = NoRet
    /\ pre = [releases |-> << >>, disk |-> [f \in LockFiles |-> NoFile]]
    /\ events = << >>
    /\ passes = NoPasses

\* `updated := *st`: a copy of the struct; its Releases slice shares st's backing array
CopyState(s) == s

\* the store of the merge loop with the index off by one (wrapping at the end)
SetVersion_OffByOne(h, slice, idx, ver) ==
    [h EXCEPT ![slice][(idx % Len(h[slice])) + 1].Version = ver]

\* `updated.Releases[i].Version = ver`: a store into the backing array of the slice
SetVersion(h, slice, idx, ver) == [h EXCEPT ![slice][idx].Version = ver]

\* a return that removes the temporary directory on the success path only
Finish_NoDefer(doc, err) ==
    /\ ret' = [doc |-> doc, err |-> err]
    /\ pc' = IF ws.exists /\ err = Nil THEN "cleanup" ELSE "done"

\* a return of the entry point: the deferred os.RemoveAll(d) runs first if d was created
Finish(doc, err) ==
    /\ ret' = [doc |-> doc, err |-> err]
    /\ pc' = IF ws.exists THEN "cleanup" ELSE "done"

\* a panic unwinds the entry point: deferred calls run, then the process dies
Panic ==
    /\ ret' = [doc |-> "none", err |-> "panic"]
    /\ pc' = IF ws.exists THEN "cleanup" ELSE "panicked"

-----------------------------------------------------------------------------
(* Entry points: HelmState.mergeLockedDependencies and                     *)
(* HelmState.updateDependenciesInTempDir                                   *)

\* a caller invokes one of the two entry points on a state file
Call(o, path, releases) ==
    /\ pc = "idle"
    /\ op' = o
    /\ st' = HelmState(path)
    /\ heap' = [heap EXCEPT ![ReleasesAddr] = releases]
    /\ pc' = "scan"
    /\ updated' = HelmState(path)
    /\ pre' = [releases |-> releases, disk |-> disk]
    /\ UNCHANGED <<passes, disk, ws, i, unresolved, filename, lockFileContent,
                   updatedLockFileContent, resolved, lockfileExists, ret, events>>

\* getUnresolvedDependenciess: one iteration of `for _, r := range st.Releases`
ScanStep ==
    /\ pc = "scan"
    /\ i <= Len(heap[st.Releases])
    /\ LET r == heap[st.Releases][i]
           rr == resolveRemoteChart(r.Chart)
           urls == repoToURL(st.Repositories)
       IN  IF rr.panic
           THEN Panic /\ UNCHANGED <<i, unresolved>>
           ELSE IF ~rr.ok \/ rr.repo \notin DOMAIN urls
           THEN i' = i + 1 /\ UNCHANGED <<pc, ret, unresolved>>
           ELSE LET a == Add(unresolved, rr.chart, urls[rr.repo], r.Version) IN
                /\ unresolved' = a.deps
                /\ IF a.err /= Nil
                   THEN Finish("nil", a.err) /\ UNCHANGED i
                   ELSE i' = i + 1 /\ UNCHANGED <<pc, ret>>
    /\ UNCHANGED <<passes, st, heap, disk, ws, op, filename, lockFileContent,
                   updatedLockFileContent, resolved, lockfileExists, updated, pre, events>>

\* the end of a scan that is not followed by the check for an empty set
ScanEnd_NoFastPath ==
    /\ pc = "scan"
    /\ i > Len(heap[st.Releases])
    /\ filename' = Filename(st.FilePath)
    /\ pc' = (IF op = "merge" THEN "resolve" ELSE "tempDir")
    /\ UNCHANGED <<passes, st, heap, disk, ws, op, i, unresolved, lockFileContent,
                   updatedLockFileContent, resolved, lockfileExists, updated, pre, events,
                   ret>>

\* the end of the scan: the lock identity, the fast path `len(unresolved.deps) == 0`
ScanEnd ==
    /\ pc = "scan"
    /\ i > Len(heap[st.Releases])
    /\ filename' = Filename(st.FilePath)
    /\ IF DOMAIN unresolved = {}
       THEN Finish("st", Nil)
       ELSE pc' = (IF op = "merge" THEN "resolve" ELSE "tempDir") /\ UNCHANGED ret
    /\ UNCHANGED <<passes, st, heap, disk, ws, op, i, unresolved, lockFileContent,
                   updatedLockFileContent, resolved, lockfileExists, updated, pre, events>>

\* resolveDependencies up to the merge loop: depMan.Resolve and the early returns
ResolveLock ==
    /\ pc = "resolve"
    /\ \E rd \in readBytes(disk[lockFileName(filename)]) :
        LET res == Resolve(rd) IN
        /\ events' = Append(events, Ev("Resolve", rd.err))
        /\ resolved' = res.resolved
        /\ lockfileExists' = res.lockExists
        /\ IF res.err /= Nil
           THEN Finish("nil", res.err) /\ UNCHANGED <<updated, i>>
           ELSE IF ~res.lockExists
           THEN Finish("st", Nil) /\ UNCHANGED <<updated, i>>
           ELSE /\ updated' = CopyState(st)
                /\ i' = 1
                /\ pc' = "merge"
                /\ UNCHANGED ret
    /\ UNCHANGED <<passes, st, heap, disk, ws, op, unresolved, filename, lockFileContent,
                   updatedLockFileContent, pre>>

\* resolveDependencies: one iteration of `for i, r := range updated.Releases`
MergeStep ==
    /\ pc = "merge"
    /\ i <= Len(heap[updated.Releases])
    /\ LET r == heap[updated.Releases][i]
           rr == resolveRemoteChart(r.Chart)
           urls == repoToURL(st.Repositories)
       IN  IF rr.panic
           THEN Panic /\ UNCHANGED <<i, heap>>
           ELSE IF ~rr.ok \/ rr.repo \notin DOMAIN urls
           THEN i' = i + 1 /\ UNCHANGED <<pc, ret, heap>>
           ELSE LET g == Get(resolved, rr.chart) IN
                IF g.panic
                THEN Panic /\ UNCHANGED <<i, heap>>
                ELSE IF g.err /= Nil
                THEN Finish("nil", g.err) /\ UNCHANGED <<i, heap>>
                ELSE /\ heap' = SetVersion(heap, updated.Releases, i, g.ver)
                     /\ i' = i + 1
                     /\ UNCHANGED <<pc, ret>>
    /\ UNCHANGED <<passes, st, disk, ws, op, unresolved, filename, lockFileContent,
                   updatedLockFileContent, resolved, lockfileExists, updated, pre, events>>

\* resolveDependencies: `return &updated, nil`
MergeEnd ==
    /\ pc = "merge"
    /\ i > Len(heap[updated.Releases])
    /\ Finish("updated", Nil)
    /\ UNCHANGED <<passes, st, heap, disk, ws, op, i, unresolved, filename, lockFileContent,
                   updatedLockFileContent, resolved, lockfileExists, updated, pre, events>>

-----------------------------------------------------------------------------
(* updateDependenciesInTempDir / updateDependencies / chartDependencyManager.Update *)

\* Every write below goes through the injected writeFile, which may fail; a failed
\* write leaves the file as it was.

\* `d, err := tempDir("", "")` and `defer os.RemoveAll(d)`
TempDir ==
    /\ pc = "tempDir"
    /\ \E err \in {Nil, "IOError"} :
        /\ events' = Append(events, Ev("tempDir", err))
        /\ IF err = Nil
           THEN ws' = [NoWs EXCEPT !.exists = TRUE] /\ pc' = "writeChart" /\ UNCHANGED ret
           ELSE Finish("nil", err) /\ UNCHANGED ws
    /\ UNCHANGED <<passes, st, heap, disk, op, i, unresolved, filename, lockFileContent,
                   updatedLockFileContent, resolved, lockfileExists, updated, pre>>

\* Update: write Chart.yaml of the temporary chart
WriteChartYaml ==
    /\ pc = "writeChart"
    /\ \E err \in {Nil, "IOError"} :
        /\ events' = Append(events, Ev("write Chart.yaml", err))
        /\ IF err = Nil
           THEN ws' = [ws EXCEPT !.chart = Bytes("chart", filename)]
                /\ pc' = "writeReqs" /\ UNCHANGED ret
           ELSE Finish("nil", err) /\ UNCHANGED ws
    /\ UNCHANGED <<passes, st, heap, disk, op, i, unresolved, filename, lockFileContent,
                   updatedLockFileContent, resolved, lockfileExists, updated, pre>>

\* Update: marshal unresolved.ToChartRequirements() and write requirements.yaml
WriteRequirements ==
    /\ pc = "writeReqs"
    /\ \E err \in {Nil, "IOError"}, o \in Orders(unresolved) :
        LET reqs == ToChartRequirements(unresolved, o) IN
        /\ unresolved' = reqs.deps
        /\ events' = Append(events, Ev("write requirements.yaml", err))
        /\ IF err = Nil
           THEN ws' = [ws EXCEPT !.reqs = Yaml(reqs.reqs)]
                /\ pc' = "readPrior" /\ UNCHANGED ret
           ELSE Finish("nil", err) /\ UNCHANGED ws
    /\ UNCHANGED <<passes, st, heap, disk, op, i, filename, lockFileContent,
                   updatedLockFileContent, resolved, lockfileExists, updated, pre>>

\* ReadPriorLock that takes the prior lock out of its place instead of reading it
ReadPriorLock_Moves ==
    /\ pc = "readPrior"
    /\ \E rd \in readBytes(disk[lockFileName(filename)]) :
        /\ events' = Append(events, Ev("read lock", rd.err))
        /\ lockFileContent' = rd.bytes
        /\ disk' = IF rd.err = Nil
                   THEN [disk EXCEPT ![lockFileName(filename)] = NoFile]
                   ELSE disk
        /\ IF rd.err /= Nil /\ rd.err /= NotExist
           THEN Finish("nil", rd.err)
           ELSE pc' = (IF rd.bytes /= NilBytes THEN "writePrior" ELSE "updateDeps")
                /\ UNCHANGED ret
    /\ UNCHANGED <<passes, st, heap, ws, op, i, unresolved, filename,
                   updatedLockFileContent, resolved, lockfileExists, updated, pre>>

\* Update: read <name>.lock; its absence is not an error
ReadPriorLock ==
    /\ pc = "readPrior"
    /\ \E rd \in readBytes(disk[lockFileName(filename)]) :
        /\ events' = Append(events, Ev("read lock", rd.err))
        /\ lockFileContent' = rd.bytes
        /\ IF rd.err /= Nil /\ rd.err /= NotExist
           THEN Finish("nil", rd.err)
           ELSE pc' = (IF rd.bytes /= NilBytes THEN "writePrior" ELSE "updateDeps")
                /\ UNCHANGED ret
    /\ UNCHANGED <<passes, st, heap, disk, ws, op, i, unresolved, filename,
                   updatedLockFileContent, resolved, lockfileExists, updated, pre>>

\* WritePriorLock that reports the copy without making it
WritePriorLock_WritesNothing ==
    /\ pc = "writePrior"
    /\ \E err \in {Nil, "IOError"} :
        /\ events' = Append(events, Ev("write requirements.lock", err))
        /\ IF err = Nil
           THEN pc' = "updateDeps" /\ UNCHANGED <<ret, ws>>
           ELSE Finish("nil", err) /\ UNCHANGED ws
    /\ UNCHANGED <<passes, st, heap, disk, op, i, unresolved, filename, lockFileContent,
                   updatedLockFileContent, resolved, lockfileExists, updated, pre>>

\* Update: copy the prior lock into the temporary chart as requirements.lock
WritePriorLock ==
    /\ pc = "writePrior"
    /\ \E err \in {Nil, "IOError"} :
        /\ events' = Append(events, Ev("write requirements.lock", err))
        /\ IF err = Nil
           THEN ws' = [ws EXCEPT !.lock = lockFileContent]
                /\ pc' = "updateDeps" /\ UNCHANGED ret
           ELSE Finish("nil", err) /\ UNCHANGED ws
    /\ UNCHANGED <<passes, st, heap, disk, op, i, unresolved, filename, lockFileContent,
                   updatedLockFileContent, resolved, lockfileExists, updated, pre>>

\* UpdateDeps after a prior lock that was moved, not copied, into the temporary
\* chart: when the updater fails, the lock file is gone
UpdateDeps_LosesLockOnFailure ==
    /\ pc = "updateDeps"
    /\ \/ /\ events' = Append(events, Ev("UpdateDeps", "ExternalToolError"))
          /\ Finish("nil", "ExternalToolError")
          /\ disk' = [disk EXCEPT ![lockFileName(filename)] = NoFile]
          /\ UNCHANGED ws
       \/ \E out \in LockContents \cup {ws.lock} :
          /\ events' = Append(events, Ev("UpdateDeps", Nil))
          /\ ws' = [ws EXCEPT !.lock = out]
          /\ pc' = "readOutput"
          /\ UNCHANGED <<ret, disk>>
    /\ UNCHANGED <<passes, st, heap, op, i, unresolved, filename, lockFileContent,
                   updatedLockFileContent, resolved, lockfileExists, updated, pre>>

\* Update: shell.UpdateDeps(wd), the external `helm dependency update`: it fails, or
\* it succeeds having written requirements.lock (any content) or having left it alone
UpdateDeps ==
    /\ pc = "updateDeps"
    /\ \/ /\ events' = Append(events, Ev("UpdateDeps", "ExternalToolError"))
          /\ Finish("nil", "ExternalToolError")
          /\ UNCHANGED ws
       \/ \E out \in LockContents \cup {ws.lock} :
          /\ events' = Append(events, Ev("UpdateDeps", Nil))
          /\ ws' = [ws EXCEPT !.lock = out]
          /\ pc' = "readOutput"
          /\ UNCHANGED ret
    /\ UNCHANGED <<passes, st, heap, disk, op, i, unresolved, filename, lockFileContent,
                   updatedLockFileContent, resolved, lockfileExists, updated, pre>>

\* Update: read requirements.lock back from the temporary chart
ReadOutputLock ==
    /\ pc = "readOutput"
    /\ \E rd \in readBytes(ws.lock) :
        /\ events' = Append(events, Ev("read requirements.lock", rd.err))
        /\ updatedLockFileContent' = rd.bytes
        /\ IF rd.err /= Nil
           THEN Finish("nil", rd.err)
           ELSE pc' = "commit" /\ UNCHANGED ret
    /\ UNCHANGED <<passes, st, heap, disk, ws, op, i, unresolved, filename, lockFileContent,
                   resolved, lockfileExists, updated, pre>>

\* Update: commit, `m.writeBytes(lockFile, updatedLockFileContent)`
Commit ==
    /\ pc = "commit"
    /\ \E err \in {Nil, "IOError"} :
        /\ events' = Append(events, Ev("write lock", err))
        /\ IF err = Nil
           THEN disk' = [disk EXCEPT ![lockFileName(filename)] = updatedLockFileContent]
                /\ pc' = "reResolve" /\ UNCHANGED ret
           ELSE Finish("nil", err) /\ UNCHANGED disk
    /\ UNCHANGED <<passes, st, heap, ws, op, i, unresolved, filename, lockFileContent,
                   updatedLockFileContent, resolved, lockfileExists, updated, pre>>

\* Update: `resolved, _, err := m.Resolve(unresolved)`; updateDependencies returns
\* on its error and goes on to resolveDependencies otherwise
UpdateResolve ==
    /\ pc = "reResolve"
    /\ \E rd \in readBytes(disk[lockFileName(filename)]) :
        LET res == Resolve(rd) IN
        /\ events' = Append(events, Ev("Resolve", rd.err))
        /\ resolved' = res.resolved
        /\ IF res.err /= Nil
           THEN Finish("nil", res.err)
           ELSE pc' = "resolve" /\ UNCHANGED ret
    /\ UNCHANGED <<passes, st, heap, disk, ws, op, i, unresolved, filename, lockFileContent,
                   updatedLockFileContent, lockfileExists, updated, pre>>

\* the deferred os.RemoveAll(d); the removal itself is taken to succeed
Cleanup ==
    /\ pc = "cleanup"
    /\ ws' = NoWs
    /\ events' = Append(events, Ev("RemoveAll", Nil))
    /\ pc' = IF ret.err = "panic" THEN "panicked" ELSE "done"
    /\ UNCHANGED <<passes, st, heap, disk, op, i, unresolved, filename, lockFileContent,
                   updatedLockFileContent, resolved, lockfileExists, updated, ret, pre>>

\* the caller is done with what the call returned; only the disk outlives the call
Reset ==
    /\ pc = "done"
    /\ pc' = "idle"
    /\ op' = "none"
    /\ st' = HelmState(<<"helmfile", ".yml">>)
    /\ heap' = [heap EXCEPT ![ReleasesAddr] = << >>]
    /\ i' = 1
    /\ unresolved' = EmptyMap
    /\ filename' = << >>
    /\ lockFileContent' = NilBytes
    /\ updatedLockFileContent' = NilBytes
    /\ resolved' = NilResolved
    /\ lockfileExists' = FALSE
    /\ updated' = HelmState(<<"helmfile", ".yml">>)
    /\ ret' = NoRet
    /\ pre' = [releases |-> << >>, disk |-> disk]
    /\ events' = << >>
    /\ UNCHANGED <<passes, disk, ws>>

-----------------------------------------------------------------------------

\* the calls a caller may make: either entry point, on any state file of the model
Invoke ==
    /\ pc = "idle"
    /\ \E o \in {"merge", "update"}, path \in FilePaths,
          releases \in SeqsUpTo(ReleasePool, MaxReleases) : Call(o, path, releases)

Next ==
    \/ Invoke
    \/ ScanStep
    \/ ScanEnd
    \/ ResolveLock
    \/ MergeStep
    \/ MergeEnd
    \/ TempDir
    \/ WriteChartYaml
    \/ WriteRequirements
    \/ ReadPriorLock
    \/ WritePriorLock
    \/ UpdateDeps
    \/ ReadOutputLock
    \/ Commit
    \/ UpdateResolve
    \/ Cleanup
    \/ Reset

Spec == Init /\ [][Next]_vars

-----------------------------------------------------------------------------
(* Two update passes on two different state files, interleaved.  Only the steps
   of Update and resolveDependencies that touch the lock file are kept; each pass
   has its own temporary directory, so its chart files stay local to the pass. *)

PairPaths ==
    { <<"d", "/", "helmfile", ".yaml">>,
      <<"helmfile", ".yml", ".gotmpl">>,
      <<"d", "/", "other", ".yaml">> }

PairLockFiles == {lockFileName(Filename(p)) : p \in PairPaths}

Passes == {1, 2}

Other(p) == 3 - p

\* the lock file of pass p, as the scan and Update derive it from st.FilePath
PassLock(p) == lockFileName(Filename(passes.pass[p].path))

NewPass(path) ==
    [path |-> path, pc |-> "readPrior", lockFileContent |-> NilBytes,
     updatedLockFileContent |-> NilBytes, resolved |-> NilResolved, err |-> Nil,
     readOther |-> FALSE, overwroteOther |-> FALSE]

InitPair ==
    /\ \E p1 \in PairPaths : \E p2 \in PairPaths \ {p1} :
          passes = [pass |-> <<NewPass(p1), NewPass(p2)>>,
                    owner |-> [f \in PairLockFiles |-> 0]]
    /\ disk = [f \in PairLockFiles |-> NoFile]
    /\ st = HelmState(<<"helmfile", ".yml">>)
    /\ heap = [a \in {ReleasesAddr} |-> << >>]
    /\ ws = NoWs
    /\ op = "none"
    /\ pc = "idle"
    /\ i = 1
    /\ unresolved = EmptyMap
    /\ filename = << >>
    /\ lockFileContent = NilBytes
    /\ updatedLockFileContent = NilBytes
    /\ resolved = NilResolved
    /\ lockfileExists = FALSE
    /\ updated = HelmState(<<"helmfile", ".yml">>)
    /\ ret = NoRet
    /\ pre = [releases |-> << >>, disk |-> [f \in PairLockFiles |-> NoFile]]
    /\ events = << >>

\* pass p moves on: `new` replaces fields of its record; a read of the lock file
\* is a read of the other pass's lock when the other pass committed it last
Advance(p, new, reads) ==
    passes' = [passes EXCEPT !.pass[p] =
                  [f \in DOMAIN @ |->
                      IF f \in DOMAIN new THEN new[f]
                      ELSE IF f = "readOther"
                           THEN @[f] \/ (reads /\ passes.owner[PassLock(p)] = Other(p))
                           ELSE @[f]]]

SingleCallVars == <<st, heap, ws, op, pc, i, unresolved, filename, lockFileContent,
                    updatedLockFileContent, resolved, lockfileExists, updated, ret,
                    pre, events>>

\* Update: read the prior lock of the pass's own state file
PassReadPrior ==
    /\ \E p \in Passes :
        /\ passes.pass[p].pc = "readPrior"
        /\ \E rd \in readBytes(disk[PassLock(p)]) :
              IF rd.err /= Nil /\ rd.err /= NotExist
              THEN Advance(p, [pc |-> "done", err |-> rd.err], FALSE)
              ELSE Advance(p, [pc |-> "updateDeps", lockFileContent |-> rd.bytes],
                           rd.err = Nil)
    /\ UNCHANGED disk
    /\ UNCHANGED SingleCallVars

\* Update: the updater runs in the pass's own directory and its output lock is read back
PassUpdateDeps ==
    /\ \E p \in Passes :
        /\ passes.pass[p].pc = "updateDeps"
        /\ \/ Advance(p, [pc |-> "done", err |-> "ExternalToolError"], FALSE)
           \/ \E out \in LockContents :
                 Advance(p, [pc |-> "commit", updatedLockFileContent |-> out], FALSE)
    /\ UNCHANGED disk
    /\ UNCHANGED SingleCallVars

\* Update: commit the output lock to the pass's lock file
PassCommit ==
    /\ \E p \in Passes :
        /\ passes.pass[p].pc = "commit"
        /\ \/ /\ Advance(p, [pc |-> "done", err |-> "IOError"], FALSE)
              /\ UNCHANGED disk
           \/ /\ disk' = [disk EXCEPT ![PassLock(p)] = passes.pass[p].updatedLockFileContent]
              /\ passes' = [passes EXCEPT
                     !.owner[PassLock(p)] = p,
                     !.pass[p].pc = "reResolve",
                     !.pass[p].overwroteOther = @ \/ passes.owner[PassLock(p)] = Other(p)]
    /\ UNCHANGED SingleCallVars

\* Update's final Resolve, then the Resolve of resolveDependencies
PassResolve ==
    /\ \E p \in Passes :
        /\ passes.pass[p].pc \in {"reResolve", "resolve"}
        /\ \E rd \in readBytes(disk[PassLock(p)]) :
              LET res == Resolve(rd) IN
              IF res.err /= Nil
              THEN Advance(p, [pc |-> "done", err |-> res.err], rd.err = Nil)
              ELSE Advance(p, [pc |-> IF passes.pass[p].pc = "reResolve"
                                      THEN "resolve" ELSE "done",
                               resolved |-> res.resolved], rd.err = Nil)
    /\ UNCHANGED disk
    /\ UNCHANGED SingleCallVars

NextPair ==
    \/ PassReadPrior
    \/ PassUpdateDeps
    \/ PassCommit
    \/ PassResolve

SpecPair == InitPair /\ [][NextPair]_vars

-----------------------------------------------------------------------------
(* Vocabulary of the properties *)

\* the chart reference is alias/name: not a local path, exactly two non-empty segments
WellFormedRemote(chart) ==
    /\ ~isLocalChart(chart)
    /\ Len(Split(chart)) = 2
    /\ Split(chart)[1] /= << >>
    /\ Split(chart)[2] /= << >>

\* a non-local chart reference that is not alias/name
Malformed(chart) == ~isLocalChart(chart) /\ ~WellFormedRemote(chart)

Aliases == {Repositories[j].Name : j \in 1..Len(Repositories)}

\* a dependency-managed release: alias/name with the alias in the repository map
ManagedRef(chart) == WellFormedRemote(chart) /\ Split(chart)[1] \in Aliases

PackageName(chart) == Split(chart)[2]

\* the URL the state file declares for the alias of a chart reference
AliasURL(chart) ==
    LET decl == CHOOSE j \in 1..Len(Repositories) : Repositories[j].Name = Split(chart)[1]
    IN  Repositories[decl].URL

\* the lock file of the running call, and the names it lists
LockFile == lockFileName(Filename(st.FilePath))

LockNames(content) == {content.deps[k].ChartName : k \in DOMAIN content.deps}

\* the releases of the caller's document, and of the returned document
CallerReleases == heap[st.Releases]

ReturnedReleases == heap[updated.Releases]

Happened(e) == \E k \in DOMAIN events : events[k] = e

LastEvent == events[Len(events)]

\* every chart reference of the document of the running call is a local path or alias/name
WellFormedDoc == \A j \in DOMAIN pre.releases : ~Malformed(pre.releases[j].Chart)

-----------------------------------------------------------------------------
(* Properties *)

\* C1: in Update no write to the lock file happens before the external updater has
\* returned successfully; if the updater fails, the call returns its error and the
\* lock file is what it was before the call (absent if it was absent).
C1_NoCommitBeforeUpdaterSuccess ==
    /\ \A k \in DOMAIN events :
          events[k].what = "write lock"
              => \E j \in 1..(k - 1) : events[j] = Ev("UpdateDeps", Nil)
    /\ disk /= pre.disk => Happened(Ev("UpdateDeps", Nil))
    /\ Happened(Ev("UpdateDeps", "ExternalToolError"))
          => /\ disk = pre.disk
             /\ ret = [doc |-> "nil", err |-> "ExternalToolError"]

\* C1 witness: the updater failed in a call that found a lock file, and the call has returned
C1_Witness ==
    /\ pc = "done"
    /\ Happened(Ev("UpdateDeps", "ExternalToolError"))
    /\ pre.disk[LockFile] /= NoFile
    /\ disk[LockFile] = pre.disk[LockFile]

\* C2: after a successful merge every release of the caller's original document still
\* has the version it had before the call.
C2_OriginalKeepsVersions ==
    (pc = "done" /\ ret.err = Nil /\ WellFormedDoc)
        => \A j \in DOMAIN CallerReleases : CallerReleases[j].Version = pre.releases[j].Version

\* C3: when the merge fails with NotFoundError, the releases of the original document,
\* those processed before the failing one included, keep their versions.
C3_OriginalIntactOnNotFound ==
    (pc = "done" /\ ret.err = "NotFoundError" /\ WellFormedDoc)
        => \A j \in DOMAIN CallerReleases : CallerReleases[j].Version = pre.releases[j].Version

\* C4: MergeLockedDependencies on a document with a dependency-managed release, when
\* no lock file exists, returns the input document unchanged and no error.
C4_NoLockMergeIsNoOp ==
    (/\ op = "merge"
     /\ pc \in {"done", "panicked"}
     /\ WellFormedDoc
     /\ \E j \in DOMAIN pre.releases : ManagedRef(pre.releases[j].Chart)
     /\ pre.disk[LockFile] = NoFile
     /\ events = << Ev("Resolve", NotExist) >>)
        => /\ pc = "done"
           /\ ret = [doc |-> "st", err |-> Nil]
           /\ CallerReleases = pre.releases

\* C5: Resolve returns (nil, false, nil) when the lock file does not exist, and
\* lockExists is true only when the lock file was read.
C5_ResolveOfMissingLock ==
    (events /= << >> /\ LastEvent.what = "Resolve" /\ pc \in {"merge", "done"})
        => /\ LastEvent.err = NotExist
              => (resolved.isNil /\ ~lockfileExists /\ ret.err = Nil)
           /\ lockfileExists => LastEvent.err = Nil


\* C6: a successful merge against an existing lock returns the releases of the input
\* in the same order; a release alias/name with a mapped alias has the lock's version
\* for name, every other release has the version it had.
C6_MergedVersions ==
    (pc = "done" /\ ret = [doc |-> "updated", err |-> Nil])
        => /\ disk[LockFile].kind = "yaml"
           /\ Len(ReturnedReleases) = Len(pre.releases)
           /\ \A j \in DOMAIN pre.releases :
                LET before == pre.releases[j]
                    after == ReturnedReleases[j]
                    lock == disk[LockFile].deps
                IN  /\ after.Chart = before.Chart
                    /\ IF ManagedRef(before.Chart)
                       THEN \E k \in DOMAIN lock :
                               /\ lock[k].ChartName = PackageName(before.Chart)
                               /\ lock[k].Version = after.Version
                       ELSE after.Version = before.Version

\* C6 witness: a merge has returned a document in which a managed release got a new
\* version next to a release that is not managed
C6_Witness ==
    /\ pc = "done"
    /\ ret = [doc |-> "updated", err |-> Nil]
    /\ \E j \in DOMAIN pre.releases :
          ManagedRef(pre.releases[j].Chart) /\ ReturnedReleases[j].Version /= pre.releases[j].Version
    /\ \E j \in DOMAIN pre.releases : ~ManagedRef(pre.releases[j].Chart)

\* C7: when the merge runs against a lock that has no entry for the package of some
\* dependency-managed release, it fails with NotFoundError and returns no document;
\* no successfully returned document has such a release.
C7_StaleLockIsFatal ==
    LET stale == \E j \in DOMAIN pre.releases :
                    /\ ManagedRef(pre.releases[j].Chart)
                    /\ PackageName(pre.releases[j].Chart) \notin LockNames(disk[LockFile])
    IN  /\ (pc \in {"cleanup", "done"} /\ lockfileExists /\ ~resolved.isNil /\ stale)
              => ret = [doc |-> "nil", err |-> "NotFoundError"]
        /\ (pc = "done" /\ ret.err = Nil /\ ret.doc = "updated") => ~stale

\* C7 witness: a merge against a parsed lock has failed with NotFoundError
C7_Witness ==
    /\ pc = "done"
    /\ lockfileExists
    /\ ~resolved.isNil
    /\ ret = [doc |-> "nil", err |-> "NotFoundError"]
    /\ \E j \in DOMAIN pre.releases :
          /\ ManagedRef(pre.releases[j].Chart)
          /\ PackageName(pre.releases[j].Chart) \notin LockNames(disk[LockFile])

\* C8: a non-local chart reference that is not alias/name with two non-empty segments
\* yields a returned MalformedReferenceError; the process never panics.  (A call on
\* a document with such a reference returns that error, unless the scan returned on
\* a conflict before it reached the reference.)
C8_MalformedIsReturnedError ==
    /\ pc /= "panicked"
    /\ ret.err /= "panic"
    /\ \A j \in DOMAIN pre.releases :
          (Malformed(pre.releases[j].Chart) /\ pc = "done")
              => \/ ret = [doc |-> "nil", err |-> "MalformedReferenceError"]
                 \/ ret = [doc |-> "nil", err |-> "ConflictError"] /\ i < j

\* C9: Add succeeds exactly when the name is unseen or stored with the same url and
\* constraint; a repeated identical Add leaves the set as it was; a divergent Add fails
\* with ConflictError and leaves the set as it was; a first Add stores the spec and
\* nothing else.
C9_AddContract ==
    [][ (pc = "scan" /\ i <= Len(CallerReleases) /\ ManagedRef(CallerReleases[i].Chart))
          => LET r == CallerReleases[i]
                 name == PackageName(r.Chart)
                 spec == [ChartName |-> name, Repository |-> AliasURL(r.Chart),
                          VersionConstraint |-> r.Version]
                 seen == name \in DOMAIN unresolved
                 same == seen /\ unresolved[name] = spec
             IN  /\ (ret'.err = Nil) <=> (~seen \/ same)
                 /\ same => unresolved' = unresolved
                 /\ (seen /\ ~same) => (ret'.err = "ConflictError" /\ unresolved' = unresolved)
                 /\ ~seen => /\ DOMAIN unresolved' = DOMAIN unresolved \cup {name}
                             /\ unresolved'[name] = spec
                             /\ \A n \in DOMAIN unresolved : unresolved'[n] = unresolved[n]
      ]_vars

\* C9 witness: a scan has added a spec, added it again unchanged, and then failed on a
\* divergent spec for the same name
C9_Witness ==
    /\ pc = "done"
    /\ ret.err = "ConflictError"
    /\ i = 3
    /\ ManagedRef(pre.releases[1].Chart)
    /\ pre.releases[2] = pre.releases[1]
    /\ PackageName(pre.releases[3].Chart) = PackageName(pre.releases[1].Chart)
    /\ Cardinality(DOMAIN unresolved) = 1

\* two dependency-managed releases name the same package with different constraints or urls
Conflicting(releases) ==
    \E a, b \in DOMAIN releases :
        /\ ManagedRef(releases[a].Chart)
        /\ ManagedRef(releases[b].Chart)
        /\ PackageName(releases[a].Chart) = PackageName(releases[b].Chart)
        /\ \/ releases[a].Version /= releases[b].Version
           \/ AliasURL(releases[a].Chart) /= AliasURL(releases[b].Chart)

\* C10: a document with two conflicting dependency-managed releases makes both entry
\* points fail with ConflictError during the scan, before any lock-file read or write,
\* workspace creation or updater invocation.
C10_ConflictBeforeAnyIO ==
    (Conflicting(pre.releases) /\ pc \notin {"idle", "scan"})
        => /\ pc = "done"
           /\ ret = [doc |-> "nil", err |-> "ConflictError"]
           /\ events = << >>
           /\ ~ws.exists
           /\ disk = pre.disk

\* C10 on documents without a malformed reference: there the scan does reach the
\* second conflicting release
C10_ConflictBeforeAnyIO_WellFormed ==
    (Conflicting(pre.releases) /\ WellFormedDoc /\ pc \notin {"idle", "scan"})
        => /\ pc = "done"
           /\ ret = [doc |-> "nil", err |-> "ConflictError"]
           /\ events = << >>
           /\ ~ws.exists
           /\ disk = pre.disk


\* C11: in UpdateDependencies a temporary directory that was created is removed before
\* the call returns, on every exit path: no directory exists once a call has returned,
\* and the removal is the last thing a call that created one did.
C11_WorkspaceRemovedOnEveryExit ==
    /\ pc \in {"idle", "done", "panicked"} => ~ws.exists
    /\ (pc \in {"done", "panicked"} /\ Happened(Ev("tempDir", Nil)))
          => LastEvent = Ev("RemoveAll", Nil)
    /\ ws.exists => (op = "update" /\ Happened(Ev("tempDir", Nil)))

\* C11 witness: an update whose merge step failed with NotFoundError, after the
\* directory was created and the lock committed, has returned
C11_Witness ==
    /\ pc = "done"
    /\ op = "update"
    /\ ret.err = "NotFoundError"
    /\ Happened(Ev("tempDir", Nil))
    /\ Happened(Ev("write lock", Nil))
    /\ ~ws.exists


\* C12 (as stated): two passes for state files with distinct paths never read or
\* overwrite the lock file committed by the other.
C12_DistinctPathsNeverCollide ==
    passes.pass[1].path /= passes.pass[2].path
       => \A p \in Passes : ~passes.pass[p].readOther /\ ~passes.pass[p].overwroteOther

\* C12 (amended): two passes for state files whose base names, with the .gotmpl,
\* .yaml and .yml suffixes stripped, differ have distinct lock file names, and
\* neither reads or overwrites the lock file committed by the other.
C12_DistinctNamesNeverCollide ==
    Filename(passes.pass[1].path) /= Filename(passes.pass[2].path)
       => /\ PassLock(1) /= PassLock(2)
          /\ \A p \in Passes :
                ~passes.pass[p].readOther /\ ~passes.pass[p].overwroteOther

\* C12 witness: both passes committed and finished, on state files of different names
C12_Witness ==
    /\ Filename(passes.pass[1].path) /= Filename(passes.pass[2].path)
    /\ \A p \in Passes :
          /\ passes.pass[p].pc = "done"
          /\ passes.pass[p].err = Nil
          /\ passes.owner[PassLock(p)] = p
    /\ disk[PassLock(1)] /= disk[PassLock(2)]


\* the releases of the call that are not local and whose alias the state file declares
ScanManaged ==
    {j \in 1..Len(pre.releases) :
        /\ ~isLocalChart(pre.releases[j].Chart)
        /\ Len(Split(pre.releases[j].Chart)) = 2
        /\ Split(pre.releases[j].Chart)[1] \in Aliases}

\* the scan of the running call has returned a filename and an unresolved set
ScanReturned == filename /= << >>

\* the scan has returned and the entry point has done nothing else since
JustScanned ==
    /\ ScanReturned
    /\ events = << >>
    /\ pc \in {"resolve", "tempDir", "done"}

\* C13: a release alias/name whose alias the repository map does not have is left out
\* of the unresolved set without an error: the set the scan returns holds exactly the
\* names of the releases that are not local and whose alias is mapped, each with the
\* mapped URL and the release's declared version as its constraint.
C13_ScanKeepsMappedRemoteOnly ==
    JustScanned =>
        /\ DOMAIN unresolved = {PackageName(pre.releases[j].Chart) : j \in ScanManaged}
        /\ \A j \in ScanManaged :
              unresolved[PackageName(pre.releases[j].Chart)] =
                  [ChartName |-> PackageName(pre.releases[j].Chart),
                   Repository |-> AliasURL(pre.releases[j].Chart),
                   VersionConstraint |-> pre.releases[j].Version]

\* C13 witness: a scan has returned for a state file with a release of an undeclared
\* alias next to releases of two declared aliases
C13_Witness ==
    /\ JustScanned
    /\ \E j \in 1..Len(pre.releases) :
          /\ WellFormedRemote(pre.releases[j].Chart)
          /\ Split(pre.releases[j].Chart)[1] \notin Aliases
    /\ \E j, k \in ScanManaged :
          AliasURL(pre.releases[j].Chart) /= AliasURL(pre.releases[k].Chart)
    /\ ret.err = Nil


\* the requirements Update wrote into the temporary chart
WrittenRequirements == ws.reqs.deps

\* ToChartRequirements has just returned: the write of its result is the last event
ToChartRequirementsReturned ==
    events /= << >> /\ events[Len(events)].what = "write requirements.yaml"

\* C14: ToChartRequirements returns exactly one entry per name of the set, with the
\* constraint "*" where the stored constraint is empty and the stored constraint
\* otherwise, and leaves the set as it was: a spec added with an empty constraint is
\* still stored with the empty constraint.
C14_RequirementsDefaultOnOutputOnly ==
    /\ pc = "readPrior" =>
          /\ Len(WrittenRequirements) = Cardinality(DOMAIN unresolved)
          /\ \A n \in DOMAIN unresolved :
                \E j \in 1..Len(WrittenRequirements) :
                   /\ WrittenRequirements[j].ChartName = n
                   /\ WrittenRequirements[j].Repository = unresolved[n].Repository
                   /\ WrittenRequirements[j].VersionConstraint =
                         (IF unresolved[n].VersionConstraint = ""
                          THEN "*" ELSE unresolved[n].VersionConstraint)
    /\ ToChartRequirementsReturned =>
          \A j \in ScanManaged :
             unresolved[PackageName(pre.releases[j].Chart)].VersionConstraint
                = pre.releases[j].Version

\* C14 witness: requirements were written for a set with one empty and one
\* non-empty constraint
C14_Witness ==
    /\ pc = "readPrior"
    /\ ToChartRequirementsReturned
    /\ \E n, k \in DOMAIN unresolved :
          /\ unresolved[n].VersionConstraint = ""
          /\ unresolved[k].VersionConstraint /= ""
    /\ \E j \in 1..Len(WrittenRequirements) : WrittenRequirements[j].VersionConstraint = "*"


\* how many times the running call has called Resolve
ResolveCalls == Cardinality({k \in DOMAIN events : events[k].what = "Resolve"})

\* Update (called by the running updateDependencies) has returned an error: the call
\* ended with an error before Update's final Resolve succeeded
UpdateFailed ==
    /\ op = "update"
    /\ Happened(Ev("tempDir", Nil))
    /\ pc \in {"cleanup", "done"}
    /\ ret.err /= Nil
    /\ ResolveCalls <= 1

\* Update has just returned without an error
UpdateSucceeded == op = "update" /\ pc = "resolve"

\* C15: Update commits the lock file if and only if everything went well: when it
\* returns an error, from any step, the lock file has the content it had before the
\* call; when it returns without one, the lock file holds the bytes the updater left
\* in the temporary chart.  (Stated for well-formed state files and for calls
\* in which no read or write failed.)
C15_CommitIffAllWell ==
    /\ (UpdateFailed /\ WellFormedDoc /\ \A k \in DOMAIN events : events[k].err /= "IOError")
          => disk = pre.disk
    /\ UpdateSucceeded => disk[LockFile] = ws.lock


\* the set `content` parses to: one entry per record of the lock, under its name
ParsesTo(content, set) ==
    /\ content.kind = "yaml"
    /\ ~set.isNil
    /\ Cardinality(DOMAIN set.deps) = Len(content.deps)
    /\ \A k \in 1..Len(content.deps) :
          /\ content.deps[k].ChartName \in DOMAIN set.deps
          /\ set.deps[content.deps[k].ChartName] = content.deps[k]

\* C16: when Update returns without an error, the set it returns is the parse of the
\* lock file as that call committed it, and the lock file is byte for byte the
\* requirements.lock the updater left in the temporary chart.
C16_ReturnedSetIsCommittedLock ==
    UpdateSucceeded =>
        /\ Happened(Ev("write lock", Nil))
        /\ disk[LockFile] = updatedLockFileContent
        /\ disk[LockFile] = ws.lock
        /\ ParsesTo(disk[LockFile], resolved)

\* C16 witness: Update has returned a set of two entries, over a prior lock of other content
C16_Witness ==
    /\ UpdateSucceeded
    /\ Cardinality(DOMAIN resolved.deps) = 2
    /\ pre.disk[LockFile] /= NoFile
    /\ pre.disk[LockFile] /= disk[LockFile]


\* how many times the running call has written the lock file, successfully or not
LockWrites == Cardinality({k \in DOMAIN events : events[k].what = "write lock"})

\* C17: over any sequence of calls the lock file is created or overwritten by the
\* commit step of Update only, at most once per call, and is never deleted: reading
\* it (Resolve) and merging from it leave its existence and content as they were.
C17_OnlyCommitWritesLock ==
    /\ disk /= pre.disk =>
          /\ op = "update"
          /\ Happened(Ev("write lock", Nil))
          /\ \A f \in DOMAIN disk :
                /\ disk[f] = IF f = LockFile THEN updatedLockFileContent ELSE pre.disk[f]
                /\ disk[f] /= NoFile
    /\ (events /= << >> /\ LastEvent.what = "write lock") => LockWrites = 1
    /\ op = "merge" => disk = pre.disk

\* C17 witness: an update that found a lock file has overwritten it once, read it
\* twice more and returned
C17_Witness ==
    /\ pc = "done"
    /\ op = "update"
    /\ pre.disk[LockFile] /= NoFile
    /\ disk[LockFile] /= pre.disk[LockFile]
    /\ LockWrites = 1
    /\ ResolveCalls = 2
    /\ ret.err = Nil


\* the position in events of the updater's invocation when it is the last event,
\* 0 otherwise
UpdaterAt ==
    IF events /= << >> /\ events[Len(events)].what = "UpdateDeps" THEN Len(events) ELSE 0

\* event e is recorded before position k
Before(e, k) == \E j \in 1..(k - 1) : events[j] = e

\* C18: in Update a lock file that exists is written into the temporary chart as the
\* prior lock before the updater is invoked, after Chart.yaml and requirements.yaml;
\* when there is no lock file Update does not fail for that, writes no prior lock and
\* goes on to invoke the updater.
C18_PriorLockBeforeUpdater ==
    /\ pc = "updateDeps" =>
          /\ ws.chart /= NoFile
          /\ ws.reqs.kind = "yaml"
          /\ ws.lock = pre.disk[LockFile]
    /\ UpdaterAt > 0 =>
          /\ Before(Ev("write Chart.yaml", Nil), UpdaterAt)
          /\ Before(Ev("write requirements.yaml", Nil), UpdaterAt)
          /\ pre.disk[LockFile] /= NoFile
                => /\ Before(Ev("read lock", Nil), UpdaterAt)
                   /\ Before(Ev("write requirements.lock", Nil), UpdaterAt)
          /\ pre.disk[LockFile] = NoFile
                => /\ Before(Ev("read lock", NotExist), UpdaterAt)
                   /\ \A k \in DOMAIN events : events[k].what /= "write requirements.lock"
    /\ (events /= << >> /\ LastEvent = Ev("read lock", NotExist)) =>
          /\ pc = "updateDeps"
          /\ ret = NoRet
          /\ ws.lock = NoFile

\* C18 witness: the updater is about to run on a temporary chart that holds the
\* prior lock, a lock of two entries
C18_Witness ==
    /\ pc = "updateDeps"
    /\ pre.disk[LockFile].kind = "yaml"
    /\ Len(pre.disk[LockFile].deps) = 2
    /\ ws.lock = pre.disk[LockFile]
    /\ LastEvent = Ev("write requirements.lock", Nil)


\* every release of the call is local or names an alias the state file does not declare
NothingManaged ==
    \A j \in 1..Len(pre.releases) :
       \/ isLocalChart(pre.releases[j].Chart)
       \/ /\ Len(Split(pre.releases[j].Chart)) = 2
          /\ Split(pre.releases[j].Chart)[1] \notin Aliases

\* C19: when the scan yields an empty unresolved set, every release being local or of
\* an unmapped alias, either entry point returns the state it was given, unchanged,
\* without reading or writing the lock file, without a temporary directory and
\* without invoking the updater.
C19_EmptyScanIsNoOp ==
    (ScanReturned /\ DOMAIN unresolved = {}) =>
        /\ NothingManaged
        /\ pc = "done"
        /\ ret = [doc |-> "st", err |-> Nil]
        /\ CallerReleases = pre.releases
        /\ events = << >>
        /\ ~ws.exists
        /\ disk = pre.disk

\* C19 witness: an update of a state file with a local release and a release of an
\* undeclared alias has returned, with a lock file present
C19_Witness ==
    /\ op = "update"
    /\ pc = "done"
    /\ NothingManaged
    /\ \E j, k \in 1..Len(pre.releases) :
          /\ isLocalChart(pre.releases[j].Chart)
          /\ ~isLocalChart(pre.releases[k].Chart)
    /\ disk[LockFile] /= NoFile
    /\ ret.doc = "st"

====
